---------------------------- MODULE Spec2Model ----------------------------
(***************************************************************************)
(* The control core of the three-chamber sous-vide controller              *)
(* (Skripsie_Main_Program.ino): the operating state machine, the button    *)
(* handler, the temperature and timer updates of loop(), and the SET       *)
(* command of the BLE write callback.                                      *)
(*                                                                         *)
(* Units.  Temperatures read from a sensor are kept in sixteenths of a     *)
(* degree, the unit of the DS18B20 scratchpad word, so that tempRead/16.0  *)
(* and the 0.5 degree tolerance are exact.  Target temperatures are whole  *)
(* degrees.  The clock is kept in whole seconds, and every timestamp the   *)
(* code stores (lastTempRead, lastButtonPress, timerLastUpdate) is kept as *)
(* the elapsed time millis() - timestamp, which is the only way the code   *)
(* reads it; an elapsed time stops counting at the largest value a guard   *)
(* compares it with.                                                       *)
(*                                                                         *)
(* Not modelled: display rendering, LED output, button debouncing (the     *)
(* model takes the press edges readButtonDebounced reports), the periodic  *)
(* STATUS line, BLE advertising.                                           *)
(***************************************************************************)
EXTENDS Integers, Sequences, FiniteSets, TLC

\* ------------------------------------------------------------ constants
NUM_BUTTONS == 5
NUM_CHAMBERS == 3
\* TEMP_READ_INTERVAL 10000 ms, in seconds
TEMP_READ_INTERVAL == 10
\* TIMER_UPDATE_INTERVAL 60000 ms, in seconds
TIMER_UPDATE_INTERVAL == 60
\* STATUS_SEND_INTERVAL 2000 ms, in seconds
STATUS_SEND_INTERVAL == 2
\* the literal 5000 ms of loop(): no sensor read within 5 s of a button press
BUTTON_QUIET == 5
\* TEMP_TOLERANCE 0.5 degrees, in sixteenths
TEMP_TOLERANCE == 8
TEMP_MIN == 40
TEMP_MAX == 90
TIME_MIN == 0
TIME_MAX == 120
\* readTemperatureFromSensor waits delay(800) per sensor: 3 * 800 ms = 2.4 s,
\* two whole seconds of the clock
CONVERSION_DELAY == 2
\* setup() spends delay(100) + delay(2000) before loop() first runs
STARTUP_DELAY == 2

\* ------------------------------------------------------------ bounds
\* IncrementValue/DecrementValue presses explored in one behaviour
MaxAdjusts == 1
\* Seconds a chamber's stopwatch history follows its timer
MaxElapsed == 121

Chambers == 0 .. (NUM_CHAMBERS - 1)
Buttons == 0 .. (NUM_BUTTONS - 1)

Min(a, b) == IF a < b THEN a ELSE b
Abs(x) == IF x > 0 THEN x ELSE -x

\* ------------------------------------------------------------ state
VARIABLES
    currentState,     \* SystemState
    settingMode,      \* SettingMode
    selectedChamber,  \* 0 .. 2
    chambers,         \* [Chambers -> ChamberData]
    sinceTempRead,    \* millis() - lastTempRead
    sinceButton,      \* millis() - lastButtonPress
    sinceStatus,      \* millis() - lastStatusSend
    deviceConnected,
    pc,               \* the stage of loop() about to run
    btn,              \* the index i of updateButtons' for loop
    events,           \* payloads handed to sendBLEData by the last step
    sent,             \* payloads the last step notified to the application
    completed,        \* history: COMPLETE events per chamber in the current run
    adjusts,          \* history: IncrementValue/DecrementValue presses so far
    sinceStart,       \* history: seconds since the chamber's timer started
    startRemaining,   \* history: remainingTime when the chamber's timer started
    received          \* history: the payload the last step's onWrite was given

vars == <<currentState, settingMode, selectedChamber, chambers,
          sinceTempRead, sinceButton, sinceStatus, deviceConnected, pc, btn, events,
          sent, completed, adjusts, sinceStart, startRemaining, received>>

\* ------------------------------------------------------------ chamber model
\* initializeChambers: every field zero; timerLastUpdate = 0 is STARTUP_DELAY old
\* when loop() first runs.
InitChamber ==
    [targetTemp |-> 0, currentTemp |-> 0, targetTime |-> 0, remainingTime |-> 0,
     isActive |-> FALSE, atTemperature |-> FALSE, timerStarted |-> FALSE,
     sinceTimer |-> STARTUP_DELAY]

\* adjustTemperature without its upper clamp (if (newTemp > TEMP_MAX) dropped)
adjustTemperatureNoMax(targetTemp, delta) ==
    LET sum == targetTemp + delta
        snapped == IF targetTemp = 0 /\ delta > 0 THEN TEMP_MIN
                   ELSE IF sum < TEMP_MIN /\ delta < 0 THEN 0
                   ELSE sum
    IN  IF snapped < 0 THEN 0 ELSE snapped

\* adjustTemperature, on the target of the selected chamber
adjustTemperature(targetTemp, delta) ==
    LET sum == targetTemp + delta
        snapped == IF targetTemp = 0 /\ delta > 0 THEN TEMP_MIN
                   ELSE IF sum < TEMP_MIN /\ delta < 0 THEN 0
                   ELSE sum
        capped == IF snapped > TEMP_MAX THEN TEMP_MAX ELSE snapped
    IN  IF capped < 0 THEN 0 ELSE capped

\* adjustTime
adjustTime(targetTime, delta) ==
    LET newTime == targetTime + delta
        capped == IF newTime > TIME_MAX THEN TIME_MAX ELSE newTime
    IN  IF capped < TIME_MIN THEN TIME_MIN ELSE capped

ChamberLabel(i) == CASE i = 0 -> "C1" [] i = 1 -> "C2" [] OTHER -> "C3"
EvTempReached(i) == <<"EVENT:TEMP_REACHED", ChamberLabel(i)>>
EvComplete(i) == <<"EVENT:COMPLETE", ChamberLabel(i)>>
EvStarted == <<"EVENT:STARTED">>
EvStopped == <<"EVENT:STOPPED">>
EvAck == <<"ACK:Settings received">>

\* sendBLEData without its if (deviceConnected) test
sendBLEDataAlways(data) == data

\* sendBLEData, for the payloads a step hands to it: notified when
\* deviceConnected, dropped otherwise
sendBLEData(data) == IF deviceConnected THEN data ELSE <<>>

\* Elapsed times after d more seconds.
Later(age, d, cap) == Min(age + d, cap)
TimerCap == TIMER_UPDATE_INTERVAL
AgeChambers(ch, d) ==
    [i \in Chambers |-> [ch[i] EXCEPT !.sinceTimer = Later(@, d, TimerCap)]]


\* ------------------------------------------------------------ buttons
\* handleButtonPress case 4, currentState != STATE_RUNNING: the chambers of a run
ArmForRun(ch) ==
    [i \in Chambers |->
        IF ch[i].targetTemp >= TEMP_MIN
        THEN [ch[i] EXCEPT !.isActive = TRUE,
                           !.remainingTime = ch[i].targetTime,
                           !.timerStarted = FALSE,
                           !.sinceTimer = 0]
        ELSE ch[i]]

\* Disarm that forgets chambers[i].atTemperature = false
DisarmKeepsAtTemperature(ch) ==
    [i \in Chambers |->
        [ch[i] EXCEPT !.isActive = FALSE,
                      !.timerStarted = FALSE]]

\* Disarm that forgets chambers[i].isActive = false
DisarmKeepsActive(ch) ==
    [i \in Chambers |->
        [ch[i] EXCEPT !.atTemperature = FALSE,
                      !.timerStarted = FALSE]]

\* handleButtonPress case 4, currentState == STATE_RUNNING
Disarm(ch) ==
    [i \in Chambers |->
        [ch[i] EXCEPT !.isActive = FALSE,
                      !.atTemperature = FALSE,
                      !.timerStarted = FALSE]]

\* Adjusted that does not look at settingMode: always the temperature
AdjustedIgnoringMode(ch, sel, mode, delta) ==
    [ch EXCEPT ![sel].targetTemp = adjustTemperature(@, delta)]

\* handleButtonPress cases 2 and 3: the selected chamber after adjust*(delta)
Adjusted(ch, sel, mode, delta) ==
    IF mode = "MODE_TEMPERATURE"
    THEN [ch EXCEPT ![sel].targetTemp = adjustTemperature(@, delta)]
    ELSE [ch EXCEPT ![sel].targetTime = adjustTime(@, delta)]

\* NextChamber without the wrap-around (% NUM_CHAMBERS dropped)
NextChamberNoWrap(sel) == sel + 1

\* handleButtonPress case 0: (selectedChamber + 1) % NUM_CHAMBERS
NextChamber(sel) == (sel + 1) % NUM_CHAMBERS

\* A stop that enters STATE_PAUSED in place of STATE_IDLE
StoppedStatePaused == "STATE_PAUSED"

\* handleButtonPress case 4, currentState == STATE_RUNNING: currentState = STATE_IDLE
StoppedState == "STATE_IDLE"

\* handleButtonPress(buttonIndex)
handleButtonPress(b) ==
    /\ sinceButton' = 0
    /\ UNCHANGED <<sinceTempRead, sinceStatus, deviceConnected>>
    /\ CASE b = 0 ->
              /\ IF currentState # "STATE_RUNNING"
                 THEN /\ selectedChamber' = NextChamber(selectedChamber)
                      /\ currentState' = "STATE_SETTING"
                 ELSE UNCHANGED <<selectedChamber, currentState>>
              /\ events' = <<>>
              /\ UNCHANGED <<settingMode, chambers, completed>>
         [] b = 1 ->
              /\ IF currentState = "STATE_SETTING"
                 THEN settingMode' = IF settingMode = "MODE_TEMPERATURE"
                                     THEN "MODE_TIME" ELSE "MODE_TEMPERATURE"
                 ELSE UNCHANGED settingMode
              /\ events' = <<>>
              /\ UNCHANGED <<currentState, selectedChamber, chambers, completed>>
         [] b = 2 ->
              /\ IF currentState = "STATE_SETTING"
                 THEN chambers' = Adjusted(chambers, selectedChamber, settingMode, -1)
                 ELSE UNCHANGED chambers
              /\ events' = <<>>
              /\ UNCHANGED <<currentState, settingMode, selectedChamber, completed>>
         [] b = 3 ->
              /\ IF currentState = "STATE_SETTING"
                 THEN chambers' = Adjusted(chambers, selectedChamber, settingMode, 1)
                 ELSE UNCHANGED chambers
              /\ events' = <<>>
              /\ UNCHANGED <<currentState, settingMode, selectedChamber, completed>>
         [] OTHER ->
              /\ IF currentState = "STATE_RUNNING"
                 THEN /\ currentState' = StoppedState
                      /\ chambers' = Disarm(chambers)
                      /\ events' = <<EvStopped>>
                      /\ UNCHANGED completed
                 ELSE /\ currentState' = "STATE_RUNNING"
                      /\ chambers' = ArmForRun(chambers)
                      /\ events' = <<EvStarted>>
                      /\ completed' = [i \in Chambers |-> 0]
              /\ UNCHANGED <<settingMode, selectedChamber>>

\* ------------------------------------------------------------ sensors
\* readTemperatureFromSensor: the scratchpad bytes as (MSB << 8) | LSB, in
\* sixteenths of a degree (the code divides by 16.0); both bytes are unsigned.
readTemperatureFromSensor(MSB, LSB) == (MSB * 256) + LSB

\* ApplyReading with the latch undone when the reading leaves the tolerance
\* band (timerStarted = false beside atTemperature = false)
ApplyReadingUnlatches(c, value) ==
    LET c1 == [c EXCEPT !.currentTemp = value]
    IN  IF c1.isActive /\ c1.targetTemp >= TEMP_MIN
        THEN IF Abs(value - (16 * c1.targetTemp)) <= TEMP_TOLERANCE
             THEN [c1 EXCEPT !.atTemperature = TRUE,
                             !.timerStarted = TRUE,
                             !.sinceTimer = IF c.timerStarted THEN @ ELSE 0]
             ELSE [c1 EXCEPT !.atTemperature = FALSE, !.timerStarted = FALSE]
        ELSE c1

\* ApplyReading without the targetTemp >= TEMP_MIN half of its guard
ApplyReadingAnyTarget(c, value) ==
    LET c1 == [c EXCEPT !.currentTemp = value]
    IN  IF c1.isActive
        THEN IF Abs(value - (16 * c1.targetTemp)) <= TEMP_TOLERANCE
             THEN [c1 EXCEPT !.atTemperature = TRUE,
                             !.timerStarted = TRUE,
                             !.sinceTimer = IF c.timerStarted THEN @ ELSE 0]
             ELSE [c1 EXCEPT !.atTemperature = FALSE]
        ELSE c1

\* ApplyReading without timerLastUpdate = millis() at the timer start
ApplyReadingKeepsTick(c, value) ==
    LET c1 == [c EXCEPT !.currentTemp = value]
    IN  IF c1.isActive /\ c1.targetTemp >= TEMP_MIN
        THEN IF Abs(value - (16 * c1.targetTemp)) <= TEMP_TOLERANCE
             THEN [c1 EXCEPT !.atTemperature = TRUE,
                             !.timerStarted = TRUE]
             ELSE [c1 EXCEPT !.atTemperature = FALSE]
        ELSE c1

\* updateTemperatures, the body of its for loop for one chamber whose reading
\* `value` has just been stored
ApplyReading(c, value) ==
    LET c1 == [c EXCEPT !.currentTemp = value]
    IN  IF c1.isActive /\ c1.targetTemp >= TEMP_MIN
        THEN IF Abs(value - (16 * c1.targetTemp)) <= TEMP_TOLERANCE
             THEN [c1 EXCEPT !.atTemperature = TRUE,
                             !.timerStarted = TRUE,
                             !.sinceTimer = IF c.timerStarted THEN @ ELSE 0]
             ELSE [c1 EXCEPT !.atTemperature = FALSE]
        ELSE c1

\* The chambers in index order that satisfy P, as payload sequence F
EventsFor(P(_), F(_)) ==
    LET picked == SelectSeq(<<0, 1, 2>>, P)
    IN  [k \in 1 .. Len(picked) |-> F(picked[k])]

\* updateTemperatures with the three readings r (sixteenths); the conversions
\* have taken CONVERSION_DELAY by the time the loop over the chambers runs
updateTemperatures(r) ==
    LET aged == AgeChambers(chambers, CONVERSION_DELAY)
        new == [i \in Chambers |-> ApplyReading(aged[i], r[i])]
        Reached(i) == new[i].timerStarted /\ ~chambers[i].timerStarted
    IN  /\ chambers' = new
        /\ events' = EventsFor(Reached, EvTempReached)
        /\ sinceButton' = Later(sinceButton, CONVERSION_DELAY, BUTTON_QUIET + 1)
        /\ sinceTempRead' = 0
        /\ sinceStatus' = Later(sinceStatus, CONVERSION_DELAY, STATUS_SEND_INTERVAL)
        /\ UNCHANGED <<currentState, settingMode, selectedChamber,
                       deviceConnected, completed>>

\* ------------------------------------------------------------ timers
\* updateTimers, the body of its for loop for one chamber
TimerDue(c) ==
    /\ c.isActive /\ c.timerStarted /\ c.targetTime > 0
    /\ c.sinceTimer >= TIMER_UPDATE_INTERVAL
    /\ c.remainingTime > 0

TickTimer(c) ==
    IF TimerDue(c)
    THEN [c EXCEPT !.remainingTime = @ - 1, !.sinceTimer = 0]
    ELSE c

\* TimerCompletes with the remainingTime == 0 test moved out of the
\* if (remainingTime > 0) block: it fires on every due pass once at 0
TimerCompletesAtZero(c) ==
    /\ c.isActive /\ c.timerStarted /\ c.targetTime > 0
    /\ c.sinceTimer >= TIMER_UPDATE_INTERVAL
    /\ TickTimer(c).remainingTime = 0

\* updateTimers: the decrement leaves remainingTime == 0, EVENT:COMPLETE is sent
TimerCompletes(c) == TimerDue(c) /\ c.remainingTime - 1 = 0

\* updateTimers: the chambers after its for loop
updateTimers(ch) == [i \in Chambers |-> TickTimer(ch[i])]

\* ------------------------------------------------------------ STATUS line
\* String(currentTemp, 1): a reading in sixteenths, rounded to tenths of a degree
Tenths(value) ==
    IF value >= 0 THEN ((10 * value) + 8) \div 16
    ELSE -(((10 * (-value)) + 8) \div 16)

\* sendStatusToApp, the record of one chamber; targetTemp holds a whole number,
\* which (int) leaves as it is
StatusRecord(ch, i) ==
    <<ChamberLabel(i), Tenths(ch[i].currentTemp), ch[i].targetTemp,
      ch[i].remainingTime, IF ch[i].atTemperature THEN 1 ELSE 0,
      IF ch[i].timerStarted THEN 1 ELSE 0>>

StateName(state) ==
    CASE state = "STATE_IDLE" -> "IDLE"
      [] state = "STATE_SETTING" -> "SETTING"
      [] state = "STATE_RUNNING" -> "RUNNING"
      [] OTHER -> "PAUSED"

\* sendStatusToApp: the STATUS line of the chambers ch in operating state `state`
sendStatusToApp(ch, state) ==
    <<"STATUS", [i \in Chambers |-> StatusRecord(ch, i)], StateName(state)>>

\* loop(): deviceConnected && millis() - lastStatusSend >= STATUS_SEND_INTERVAL
StatusDue == deviceConnected /\ sinceStatus >= STATUS_SEND_INTERVAL

\* ------------------------------------------------------------ SET command
\* A payload is a sequence of one-character strings; positions are counted from
\* 0 as in the Arduino String class.
Digits == {"0", "1", "2", "3", "4", "5", "6", "7", "8", "9"}
DigitValue(c) ==
    CASE c = "0" -> 0 [] c = "1" -> 1 [] c = "2" -> 2 [] c = "3" -> 3 [] c = "4" -> 4
      [] c = "5" -> 5 [] c = "6" -> 6 [] c = "7" -> 7 [] c = "8" -> 8 [] OTHER -> 9
IsSpace(c) == c \in {" ", "\n", "\r", "\t"}

\* String::trim
RECURSIVE TrimLeft(_)
TrimLeft(s) ==
    IF Len(s) > 0 /\ IsSpace(s[1]) THEN TrimLeft(Tail(s)) ELSE s
RECURSIVE TrimRight(_)
TrimRight(s) ==
    IF Len(s) > 0 /\ IsSpace(s[Len(s)]) THEN TrimRight(SubSeq(s, 1, Len(s) - 1)) ELSE s
trim(s) == TrimRight(TrimLeft(s))

\* startsWith that compares the lengths only
startsWithAnyText(s, prefix) == Len(s) >= Len(prefix)

\* String::startsWith
startsWith(s, prefix) ==
    Len(s) >= Len(prefix) /\ SubSeq(s, 1, Len(prefix)) = prefix

\* String::indexOf(ch, fromIndex); fromIndex is unsigned in the library
indexOf(s, ch, fromIndex) ==
    LET hits == {k \in fromIndex .. (Len(s) - 1) : s[k + 1] = ch}
    IN  IF fromIndex >= Len(s) \/ hits = {} THEN -1
        ELSE CHOOSE k \in hits : \A j \in hits : k <= j

\* String::substring(left, right) for 0 <= left, 0 <= right
substring(s, left, right) ==
    LET lo == Min(left, right)
        hi0 == IF left > right THEN left ELSE right
        hi == Min(hi0, Len(s))
    IN  IF lo >= Len(s) THEN <<>> ELSE SubSeq(s, lo + 1, hi)

\* String::remove(0, count)
remove(s, count) == SubSeq(s, Min(count, Len(s)) + 1, Len(s))

\* String::toInt (atol): leading blanks, an optional sign, then digits up to
\* the first other character; 0 when there is no digit
RECURSIVE DigitsValue(_, _)
DigitsValue(s, acc) ==
    IF Len(s) > 0 /\ s[1] \in Digits
    THEN DigitsValue(Tail(s), (10 * acc) + DigitValue(s[1]))
    ELSE acc
toInt(s) ==
    LET t == TrimLeft(s)
    IN  IF Len(t) > 0 /\ t[1] = "-" THEN -DigitsValue(Tail(t), 0)
        ELSE IF Len(t) > 0 /\ t[1] = "+" THEN DigitsValue(Tail(t), 0)
        ELSE DigitsValue(t, 0)

SetPrefix == <<"S", "E", "T", ":">>

\* The int temp converted to the float targetTemp (IEEE single, 24 significant
\* bits, round to nearest, ties to even): whole numbers up to 2^24 are kept, a
\* larger one is rounded to a multiple of the power of two `quantum`
RECURSIVE FloatQuantum(_, _)
FloatQuantum(a, q) == IF a \div q < 16777216 THEN q ELSE FloatQuantum(a, 2 * q)
ToFloat(n) ==
    LET a == Abs(n)
        q == FloatQuantum(a, 1)
        lo == (a \div q) * q
        r == a - lo
        up == (2 * r > q) \/ (2 * r = q /\ (a \div q) % 2 = 1)
        rounded == IF up THEN lo + q ELSE lo
    IN  IF n < 0 THEN -rounded ELSE rounded

\* parseAppCommand, one segment: the chambers after chamberData is applied
ApplySegment(ch, chamberData) ==
    LET colon1 == indexOf(chamberData, ":", 0)
        colon2 == indexOf(chamberData, ":", colon1 + 1)
    IN  IF colon1 > 0 /\ colon2 > 0
        THEN LET chamber == toInt(substring(chamberData, 1, colon1)) - 1
                 temp == toInt(substring(chamberData, colon1 + 1, colon2))
                 time == toInt(substring(chamberData, colon2 + 1, Len(chamberData)))
             IN  IF chamber >= 0 /\ chamber < NUM_CHAMBERS
                 THEN [ch EXCEPT ![chamber].targetTemp = ToFloat(temp),
                                 ![chamber].targetTime = time]
                 ELSE ch
        ELSE ch

\* parseAppCommand, its while loop
RECURSIVE ParseSegments(_, _, _)
ParseSegments(command, chamberIndex, ch) ==
    IF Len(command) > 0 /\ chamberIndex < NUM_CHAMBERS
    THEN LET commaPos == indexOf(command, ",", 0)
             chamberData == IF commaPos = -1 THEN command
                            ELSE substring(command, 0, commaPos)
             ch1 == ApplySegment(ch, chamberData)
         IN  IF commaPos = -1 THEN ch1
             ELSE ParseSegments(remove(command, commaPos + 1), chamberIndex + 1, ch1)
    ELSE ch

\* parseAppCommand that also leaves the run for the setting screen
parseAppCommandEntersSetting(command) ==
    LET trimmed == trim(command)
    IN  /\ IF startsWith(trimmed, SetPrefix)
           THEN /\ chambers' = ParseSegments(remove(trimmed, 4), 0, chambers)
                /\ events' = <<EvAck>>
                /\ currentState' = "STATE_SETTING"
           ELSE /\ UNCHANGED <<chambers, currentState>>
                /\ events' = <<>>
        /\ UNCHANGED <<settingMode, selectedChamber, sinceTempRead,
                       sinceButton, sinceStatus, deviceConnected, completed>>

\* parseAppCommand(command)
parseAppCommand(command) ==
    LET trimmed == trim(command)
    IN  /\ IF startsWith(trimmed, SetPrefix)
           THEN /\ chambers' = ParseSegments(remove(trimmed, 4), 0, chambers)
                /\ events' = <<EvAck>>
           ELSE /\ UNCHANGED chambers
                /\ events' = <<>>
        /\ UNCHANGED <<currentState, settingMode, selectedChamber, sinceTempRead,
                       sinceButton, sinceStatus, deviceConnected, completed>>

\* ------------------------------------------------------------ loop()
IsAdjust(b) == b \in {2, 3} /\ currentState = "STATE_SETTING"

\* updateButtons: readButtonDebounced(b) reports a press edge for button b (and
\* none for the buttons btn .. b-1 polled before it)
Press(b) ==
    /\ pc = "buttons"
    /\ b >= btn
    /\ IsAdjust(b) => adjusts < MaxAdjusts
    /\ handleButtonPress(b)
    /\ sent' = sendBLEData(events')
    /\ btn' = b + 1
    /\ adjusts' = IF IsAdjust(b) THEN adjusts + 1 ELSE adjusts
    /\ UNCHANGED pc

\* loop(): millis() - lastTempRead >= TEMP_READ_INTERVAL && timeSinceButton > 5000
TempsDue ==
    sinceTempRead >= TEMP_READ_INTERVAL /\ sinceButton > BUTTON_QUIET

\* loop(): updateButtons returns with no further press edge, then
\* updateTemperatures(); lastTempRead = millis().  w[i] is the pair of
\* scratchpad bytes <<MSB, LSB>> sensor i delivers.
ReadTemps(w) ==
    /\ pc = "buttons"
    /\ TempsDue
    /\ updateTemperatures([i \in Chambers |->
                              readTemperatureFromSensor(w[i + 1][1], w[i + 1][2])])
    /\ sent' = sendBLEData(events')
    /\ pc' = "timers"
    /\ btn' = 0
    /\ UNCHANGED adjusts

\* loop(): updateButtons returns with no further press edge, and no sensor
\* read is due
SkipTemps ==
    /\ pc = "buttons"
    /\ ~TempsDue
    /\ pc' = "timers"
    /\ btn' = 0
    /\ events' = <<>>
    /\ sent' = <<>>
    /\ UNCHANGED <<currentState, settingMode, selectedChamber, chambers, sinceTempRead,
                   sinceButton, sinceStatus, deviceConnected, completed, adjusts>>

\* loop(): if (currentState == STATE_RUNNING) updateTimers(); the STATUS line
\* when it is due; then the rest of the pass, delay(1), and the d seconds until
\* the next pass polls the buttons
Timers(d) ==
    /\ pc = "timers"
    /\ LET running == currentState = "STATE_RUNNING"
           new == IF running THEN updateTimers(chambers) ELSE chambers
           Done(i) == running /\ TimerCompletes(chambers[i])
           status == IF StatusDue THEN <<sendStatusToApp(new, currentState)>>
                     ELSE <<>>
       IN  /\ chambers' = AgeChambers(new, d)
           /\ events' = EventsFor(Done, EvComplete) \o status
           /\ sinceStatus' = Later(IF StatusDue THEN 0 ELSE sinceStatus, d,
                                   STATUS_SEND_INTERVAL)
           /\ completed' = [i \in Chambers |->
                               IF Done(i) THEN Min(completed[i] + 1, 2)
                               ELSE completed[i]]
    /\ sent' = sendBLEData(events')
    /\ sinceTempRead' = Later(sinceTempRead, d, TEMP_READ_INTERVAL)
    /\ sinceButton' = Later(sinceButton, d, BUTTON_QUIET + 1)
    /\ pc' = "buttons"
    /\ UNCHANGED <<currentState, settingMode, selectedChamber,
                   deviceConnected, btn, adjusts>>

\* ------------------------------------------------------------ BLE callbacks
\* MyCallbacks::onWrite, called by the BLE stack whatever loop() is doing
OnWrite(rxValue) ==
    /\ IF Len(rxValue) > 0
       THEN parseAppCommand(rxValue)
       ELSE /\ events' = <<>>
            /\ UNCHANGED <<currentState, settingMode, selectedChamber, chambers,
                           sinceTempRead, sinceButton, sinceStatus, deviceConnected,
                           completed>>
    /\ sent' = sendBLEData(events')
    /\ UNCHANGED <<pc, btn, adjusts>>

\* MyServerCallbacks::onConnect
OnConnect ==
    /\ ~deviceConnected
    /\ deviceConnected' = TRUE
    /\ events' = <<>>
    /\ sent' = <<>>
    /\ UNCHANGED <<currentState, settingMode, selectedChamber, chambers, sinceTempRead,
                   sinceButton, sinceStatus, pc, btn, completed, adjusts>>

\* MyServerCallbacks::onDisconnect
OnDisconnect ==
    /\ deviceConnected
    /\ deviceConnected' = FALSE
    /\ events' = <<>>
    /\ sent' = <<>>
    /\ UNCHANGED <<currentState, settingMode, selectedChamber, chambers, sinceTempRead,
                   sinceButton, sinceStatus, pc, btn, completed, adjusts>>

\* ------------------------------------------------------------ specification
\* The state when loop() first runs: the globals' initialisers and setup().
Init ==
    /\ currentState = "STATE_IDLE"
    /\ settingMode = "MODE_TEMPERATURE"
    /\ selectedChamber = 0
    /\ chambers = [i \in Chambers |-> InitChamber]
    /\ sinceTempRead = 0
    /\ sinceButton = 0
    /\ sinceStatus = Min(STARTUP_DELAY, STATUS_SEND_INTERVAL)
    /\ deviceConnected = FALSE
    /\ pc = "buttons"
    /\ btn = 0
    /\ events = <<>>
    /\ sent = <<>>
    /\ completed = [i \in Chambers |-> 0]
    /\ adjusts = 0
    /\ sinceStart = [i \in Chambers |-> 0]
    /\ startRemaining = [i \in Chambers |-> 0]
    /\ received = <<>>

\* The stopwatch and payload histories are not kept
NoTrack == UNCHANGED <<sinceStart, startRemaining, received>>

\* Payloads the companion application writes
CmdCook == <<"S", "E", "T", ":", "C", "1", ":", "6", "5", ":", "1">>
CmdRaw == <<"S", "E", "T", ":", "C", "1", ":", "2", "0", ":", "3">>
Commands == {CmdCook, CmdRaw}

\* Scratchpad words: 65.0 degrees (0x0410) and 65.5625 degrees (0x0419)
WordAt == <<4, 16>>
WordOff == <<4, 25>>
SensorSamples == {<<WordAt, WordAt, WordAt>>, <<WordOff, WordOff, WordOff>>}

\* Between two passes the clock stands still or a timer interval goes by
Delays == {0, TIMER_UPDATE_INTERVAL}

Next ==
    \/ \E b \in Buttons : Press(b) /\ NoTrack
    \/ \E w \in SensorSamples : ReadTemps(w) /\ NoTrack
    \/ SkipTemps /\ NoTrack
    \/ \E d \in Delays : Timers(d) /\ NoTrack
    \/ \E c \in Commands : OnWrite(c) /\ NoTrack

Spec == Init /\ [][Next]_vars

\* ------------------------------------------------------------ buttons only
\* Targets the buttons reach from the startup state: 0 itself, and the ends of
\* the ranges the adjustments walk to one press at a time.
ButtonTemps == {0, TEMP_MIN, TEMP_MAX}
ButtonTimes == {TIME_MIN, TIME_MAX}

InitButtons ==
    /\ currentState = "STATE_IDLE"
    /\ settingMode = "MODE_TEMPERATURE"
    /\ selectedChamber = 0
    /\ chambers \in {[i \in Chambers |->
                        [InitChamber EXCEPT !.targetTemp = t[i], !.targetTime = m[i]]] :
                     t \in [Chambers -> ButtonTemps], m \in [Chambers -> ButtonTimes]}
    /\ sinceTempRead = 0
    /\ sinceButton = 0
    /\ sinceStatus = Min(STARTUP_DELAY, STATUS_SEND_INTERVAL)
    /\ deviceConnected = FALSE
    /\ pc = "buttons"
    /\ btn = 0
    /\ events = <<>>
    /\ sent = <<>>
    /\ completed = [i \in Chambers |-> 0]
    /\ adjusts = 0
    /\ sinceStart = [i \in Chambers |-> 0]
    /\ startRemaining = [i \in Chambers |-> 0]
    /\ received = <<>>

\* Button presses and the passes of loop() between them; no remote command
NextButtons ==
    \/ \E b \in Buttons : Press(b) /\ NoTrack
    \/ SkipTemps /\ NoTrack
    \/ Timers(0) /\ NoTrack

SpecButtons == InitButtons /\ [][NextButtons]_vars

\* ------------------------------------------------------------ sensor fault
\* The failure value of the sensor interface, -999.0 degrees, in sixteenths.
\* readTemperatureFromSensor of this source never returns it (its result is at
\* least 0); it is delivered here in place of a sensor's reading.
SENSOR_FAULT == (-999) * 16

\* A remote SET whose target equals the failure value
CmdFault == <<"S", "E", "T", ":", "C", "1", ":", "-", "9", "9", "9", ":", "1">>

\* loop(): updateTemperatures() in which the sensor of chamber f fails and the
\* other sensors read 65.0 degrees
ReadFault(f) ==
    /\ pc = "buttons"
    /\ TempsDue
    /\ updateTemperatures([i \in Chambers |->
                              IF i = f THEN SENSOR_FAULT
                              ELSE readTemperatureFromSensor(WordAt[1], WordAt[2])])
    /\ sent' = sendBLEData(events')
    /\ pc' = "timers"
    /\ btn' = 0
    /\ UNCHANGED adjusts

NextSentinel ==
    \/ \E b \in Buttons : Press(b) /\ NoTrack
    \/ ReadTemps(<<WordAt, WordAt, WordAt>>) /\ NoTrack
    \/ \E f \in Chambers : ReadFault(f) /\ NoTrack
    \/ SkipTemps /\ NoTrack
    \/ \E d \in Delays : Timers(d) /\ NoTrack
    \/ \E c \in {CmdCook, CmdFault} : OnWrite(c) /\ NoTrack

SpecSentinel == Init /\ [][NextSentinel]_vars

\* ------------------------------------------------------------ one-second passes
\* The stopwatch history of a step in which d seconds go by: a chamber's
\* stopwatch starts when its timerStarted becomes true and is cleared with it.
Track(d) ==
    /\ \A i \in Chambers :
          chambers[i].timerStarted => sinceStart[i] + d <= MaxElapsed
    /\ sinceStart' = [i \in Chambers |->
                        IF chambers'[i].timerStarted /\ chambers[i].timerStarted
                        THEN sinceStart[i] + d ELSE 0]
    /\ startRemaining' = [i \in Chambers |->
                            IF ~chambers'[i].timerStarted THEN 0
                            ELSE IF chambers[i].timerStarted THEN startRemaining[i]
                            ELSE chambers'[i].remainingTime]
    /\ UNCHANGED received

\* A cook of two minutes at 65 degrees in chamber 1
CmdCook2 == <<"S", "E", "T", ":", "C", "1", ":", "6", "5", ":", "2">>

\* Passes of loop() follow one another within the second, or the next second
PassDelays == {0, 1}

\* The passes of loop() second by second: the sensors read 65.0 degrees, the
\* user presses ToggleSettingMode or ToggleRun, the application sends CmdCook2
NextLoop ==
    \/ \E b \in {1, 4} : Press(b) /\ Track(0)
    \/ ReadTemps(<<WordAt, WordAt, WordAt>>) /\ Track(CONVERSION_DELAY)
    \/ SkipTemps /\ Track(0)
    \/ \E d \in PassDelays : Timers(d) /\ Track(d)
    \/ OnWrite(CmdCook2) /\ Track(0)

SpecLoop == Init /\ [][NextLoop]_vars

\* ------------------------------------------------------------ remote commands
\* Payloads: the raw set of the protocol, an out-of-range and a malformed
\* segment before a valid one, a valid segment after three others, no segment,
\* another prefix, a blank before the prefix, a target beyond 2^24, no text
CmdVerbatim == <<"S", "E", "T", ":", "C", "3", ":", "9", "9", "9", ":", "6", "0">>
CmdOutOfRange ==
    <<"S", "E", "T", ":", "C", "4", ":", "5", "0", ":", "5", ",",
      "C", "2", ":", "7", "0", ":", "2">>
CmdMalformed == <<"S", "E", "T", ":", "x", "x", ",", "C", "2", ":", "7", "0", ":", "2">>
CmdFourth ==
    <<"S", "E", "T", ":", "C", "9", ":", "1", ":", "1", ",", "C", "9", ":", "1", ":", "1",
      ",", "C", "9", ":", "1", ":", "1", ",", "C", "1", ":", "6", "5", ":", "1">>
CmdNoSegment == <<"S", "E", "T", ":">>
CmdOtherPrefix == <<"G", "E", "T", ":", "C", "1", ":", "6", "5", ":", "1">>
CmdBlankFirst == <<" ", "S", "E", "T", ":", "C", "2", ":", "7", "0", ":", "2">>
CmdWide ==
    <<"S", "E", "T", ":", "C", "1", ":", "1", "6", "7", "7", "7", "2", "1", "7", ":", "1">>
CmdEmpty == <<>>
Payloads ==
    {CmdCook, CmdVerbatim, CmdOutOfRange, CmdMalformed, CmdFourth, CmdNoSegment,
     CmdOtherPrefix, CmdBlankFirst, CmdWide, CmdEmpty}

\* The payload history of a step: the payload given to onWrite, none otherwise
Hear(payload) == received' = payload /\ UNCHANGED <<sinceStart, startRemaining>>

\* The write callback with every payload, in Idle, Setting and Running
NextCmd ==
    \/ \E b \in {0, 4} : Press(b) /\ Hear(<<>>)
    \/ ReadTemps(<<WordAt, WordAt, WordAt>>) /\ Hear(<<>>)
    \/ SkipTemps /\ Hear(<<>>)
    \/ Timers(TIMER_UPDATE_INTERVAL) /\ Hear(<<>>)
    \/ \E c \in Payloads : OnWrite(c) /\ Hear(c)

SpecCmd == Init /\ [][NextCmd]_vars

\* ------------------------------------------------------------ a run to its end
\* A remote SET that keeps the temperature of chamber 1 and sets its time to 0
CmdZero == <<"S", "E", "T", ":", "C", "1", ":", "6", "5", ":", "0">>

\* loop() goes on from updateButtons to the sensor stage
LoopOn ==
    \/ ReadTemps(<<WordAt, WordAt, WordAt>>) /\ NoTrack
    \/ SkipTemps /\ NoTrack

\* loop() ends a pass a timer interval later than the pass before
TimePasses == Timers(TIMER_UPDATE_INTERVAL) /\ NoTrack

NextLive ==
    \/ Press(4) /\ NoTrack
    \/ LoopOn
    \/ Timers(0) /\ NoTrack
    \/ TimePasses
    \/ \E c \in {CmdCook, CmdZero} : OnWrite(c) /\ NoTrack

\* loop() runs for ever (Arduino calls it again as soon as it returns) and the
\* clock advances (every pass ends with delay(1))
SpecLive ==
    Init /\ [][NextLive]_vars /\ WF_vars(LoopOn) /\ SF_vars(TimePasses)

\* ------------------------------------------------------------ the link
\* The loop, the buttons, the write callback and the connection callbacks
NextLink ==
    \/ \E b \in Buttons : Press(b) /\ NoTrack
    \/ ReadTemps(<<WordAt, WordAt, WordAt>>) /\ NoTrack
    \/ SkipTemps /\ NoTrack
    \/ \E d \in Delays : Timers(d) /\ NoTrack
    \/ OnWrite(CmdCook) /\ NoTrack
    \/ OnConnect /\ NoTrack
    \/ OnDisconnect /\ NoTrack

SpecLink == Init /\ [][NextLink]_vars

\* ------------------------------------------------------------ claims
InTempDomain(t) == t = 0 \/ (TEMP_MIN <= t /\ t <= TEMP_MAX)
InTimeDomain(m) == TIME_MIN <= m /\ m <= TIME_MAX

\* Press(b) is the step that moves the button index btn to b + 1
PressStep(b) == btn' = b + 1 /\ btn' # btn

\* C1: with button adjustments only (no remote SET), every chamber's target
\* temperature is 0 or within [40, 90] and every target time within [0, 120].
C1_ClampInvariant ==
    \A i \in Chambers :
        /\ InTempDomain(chambers[i].targetTemp)
        /\ InTimeDomain(chambers[i].targetTime)

\* IncrementValue has just been pressed on a chamber already at the maximum
\* temperature, and the target is still the maximum.
C1_Witness ==
    /\ btn = 4
    /\ adjusts = 1
    /\ currentState = "STATE_SETTING"
    /\ settingMode = "MODE_TEMPERATURE"
    /\ chambers[selectedChamber].targetTemp = TEMP_MAX

\* C2 (as claimed): an adjustTemperature press leaves the selected chamber's
\* target temperature at 0 or within [40, 90], whatever the target was before,
\* a raw value stored by a remote SET included.
C2_AdjustLeavesDomain ==
    [][((PressStep(2) \/ PressStep(3))
          /\ currentState = "STATE_SETTING" /\ settingMode = "MODE_TEMPERATURE")
       => InTempDomain(chambers'[selectedChamber].targetTemp)]_vars

\* A reading step: the sensor stage of a pass has stored new readings
ReadStep == pc = "buttons" /\ pc' = "timers" /\ TempsDue
TimerStep == pc = "timers" /\ pc' = "buttons"
Emitted(e) == \E k \in 1 .. Len(events') : events'[k] = e

C4_Latch ==
    [][\A i \in Chambers :
          (chambers[i].timerStarted /\ ~chambers'[i].timerStarted)
          => (PressStep(4) /\ currentState = "STATE_RUNNING")]_vars

\* A latched chamber whose reading has since left the tolerance band
C4_Witness ==
    \E i \in Chambers :
        /\ chambers[i].timerStarted
        /\ ~chambers[i].atTemperature
        /\ chambers[i].isActive
        /\ Abs(chambers[i].currentTemp - (16 * chambers[i].targetTemp)) > TEMP_TOLERANCE

\* C5: in one run COMPLETE is emitted at most once per chamber, and a step
\* emits it exactly when it is the timer step that takes remainingTime from 1
\* to 0; timer steps at remainingTime = 0 emit nothing.
C5_CompleteOnce ==
    /\ [](\A i \in Chambers : completed[i] <= 1)
    /\ [][\A i \in Chambers :
             Emitted(EvComplete(i))
             <=> (/\ TimerStep
                  /\ chambers[i].remainingTime = 1
                  /\ chambers'[i].remainingTime = 0)]_vars

\* A timer step has run, due again by the clock, on a chamber whose COMPLETE
\* was already sent, and has sent nothing
C5_Witness ==
    \E i \in Chambers :
        /\ completed[i] = 1
        /\ chambers[i].remainingTime = 0
        /\ chambers[i].timerStarted /\ chambers[i].targetTime > 0
        /\ chambers[i].sinceTimer >= TIMER_UPDATE_INTERVAL
        /\ pc = "buttons" /\ btn = 0
        /\ events = <<>>

\* C6 (as claimed): while Running with isActive, timerStarted and
\* targetTime > 0, every timer step finds remainingTime decreased by
\* min(k, its value at timer start), k the full 60-second intervals since the
\* timer started, and never below 0.
C6_MinuteDecrement ==
    [][\A i \in Chambers :
          (/\ TimerStep
           /\ currentState = "STATE_RUNNING"
           /\ chambers[i].isActive /\ chambers[i].timerStarted
           /\ chambers[i].targetTime > 0)
          => /\ startRemaining[i] - chambers'[i].remainingTime
                  = Min(sinceStart[i] \div TIMER_UPDATE_INTERVAL, startRemaining[i])
             /\ chambers'[i].remainingTime >= 0]_vars

\* C7 (as claimed): every chamber has 0 <= remainingTime <= targetTime.
C7_RemainingWithinTarget ==
    \A i \in Chambers :
        0 <= chambers[i].remainingTime
        /\ chambers[i].remainingTime <= chambers[i].targetTime

\* C8: ToggleRun outside Running enters Running and sends STARTED, and with no
\* target at 40 or above no chamber becomes active; in Running it enters Idle,
\* clears isActive, atTemperature and timerStarted of every chamber, keeps every
\* target, and sends STOPPED.
C8_ToggleRun ==
    [][PressStep(4) =>
         IF currentState # "STATE_RUNNING"
         THEN /\ currentState' = "STATE_RUNNING"
              /\ events' = <<EvStarted>>
              /\ (\A i \in Chambers : chambers[i].targetTemp < TEMP_MIN)
                 => (\A i \in Chambers : ~chambers'[i].isActive)
         ELSE /\ currentState' = "STATE_IDLE"
              /\ events' = <<EvStopped>>
              /\ \A i \in Chambers :
                    /\ ~chambers'[i].isActive
                    /\ ~chambers'[i].atTemperature
                    /\ ~chambers'[i].timerStarted
                    /\ chambers'[i].targetTemp = chambers[i].targetTemp
                    /\ chambers'[i].targetTime = chambers[i].targetTime]_vars

\* A run has just been stopped; one of its chambers had reached its temperature
\* (its reading is still within the band of its target)
C8_Witness ==
    /\ btn = 5
    /\ currentState = "STATE_IDLE"
    /\ events = <<EvStopped>>
    /\ \E i \in Chambers :
          /\ chambers[i].targetTemp >= TEMP_MIN
          /\ Abs(chambers[i].currentTemp - (16 * chambers[i].targetTemp)) <= TEMP_TOLERANCE

\* C9 (as claimed): right after a ToggleRun that starts a run, every chamber has
\* isActive = (targetTemp >= 40), remainingTime = targetTime, timerStarted false.
C9_ArmForRun ==
    [][(PressStep(4) /\ currentState # "STATE_RUNNING")
       => \A i \in Chambers :
             /\ chambers'[i].isActive = (chambers[i].targetTemp >= TEMP_MIN)
             /\ chambers'[i].remainingTime = chambers[i].targetTime
             /\ ~chambers'[i].timerStarted]_vars

\* C10: SelectChamber in Idle or Setting selects (selectedChamber + 1) mod 3 and
\* enters Setting; in Running it changes neither.
C10_SelectChamber ==
    [][PressStep(0) =>
         IF currentState \in {"STATE_IDLE", "STATE_SETTING"}
         THEN /\ selectedChamber' = (selectedChamber + 1) % 3
              /\ currentState' = "STATE_SETTING"
         ELSE /\ selectedChamber' = selectedChamber
              /\ currentState' = currentState]_vars

\* SelectChamber has just been pressed with the last chamber selected, and has
\* wrapped around to the first
C10_Witness ==
    /\ btn = 1
    /\ currentState = "STATE_SETTING"
    /\ selectedChamber = 0

\* C11: the Paused state is never entered, whatever buttons, readings, timer
\* steps, connection changes and remote commands occur.
C11_NeverPaused ==
    currentState \in {"STATE_IDLE", "STATE_SETTING", "STATE_RUNNING"}

\* A run has just been stopped while the application is connected
C11_Witness ==
    /\ deviceConnected
    /\ btn = 5
    /\ events = <<EvStopped>>
    /\ currentState = "STATE_IDLE"

\* A write step: the write callback has run (the loop has not moved)
WriteStep == pc' = pc /\ btn' = btn /\ deviceConnected' = deviceConnected

\* The protocol's reading of a SET payload, for the claims about it: the text
\* after SET: cut at the commas, a segment being C<index>:<temp>:<time> with a
\* decimal index and decimal, possibly negative, temp and time.
RECURSIVE SplitFrom(_, _, _)
SplitFrom(s, ch, cur) ==
    IF s = <<>> THEN <<cur>>
    ELSE IF Head(s) = ch THEN <<cur>> \o SplitFrom(Tail(s), ch, <<>>)
    ELSE SplitFrom(Tail(s), ch, Append(cur, Head(s)))
IsIndex(s) == Len(s) > 0 /\ \A k \in 1 .. Len(s) : s[k] \in Digits
IsInteger(s) == Len(s) > 0 /\ IsIndex(IF s[1] = "-" THEN Tail(s) ELSE s)
Decimal(s) == IF s[1] = "-" THEN -DigitsValue(Tail(s), 0) ELSE DigitsValue(s, 0)
Fields(seg) == SplitFrom(Tail(seg), ":", <<>>)
ValidSegment(seg) ==
    /\ Len(seg) > 0 /\ seg[1] = "C"
    /\ Len(Fields(seg)) = 3
    /\ IsIndex(Fields(seg)[1]) /\ Decimal(Fields(seg)[1]) \in 1 .. NUM_CHAMBERS
    /\ IsInteger(Fields(seg)[2]) /\ IsInteger(Fields(seg)[3])
SegChamber(seg) == Decimal(Fields(seg)[1]) - 1
SegTemp(seg) == Decimal(Fields(seg)[2])
SegTime(seg) == Decimal(Fields(seg)[3])
IsSet(payload) ==
    Len(payload) >= 4 /\ SubSeq(payload, 1, 4) = <<"S", "E", "T", ":">>
Segments(payload) == SplitFrom(SubSeq(payload, 5, Len(payload)), ",", <<>>)

\* C12 (as claimed): in a SET command every valid segment (the last one for its
\* chamber) is applied to its chamber as it would be alone, whatever segments
\* stand before or after it, and a chamber no valid segment names keeps its
\* targets.
C12_EverySegmentApplied ==
    [][(WriteStep /\ IsSet(received')) =>
         LET segs == Segments(received')
             Last(k) == /\ ValidSegment(segs[k])
                        /\ \A j \in (k + 1) .. Len(segs) :
                              ValidSegment(segs[j])
                              => SegChamber(segs[j]) # SegChamber(segs[k])
         IN  /\ \A k \in 1 .. Len(segs) :
                   Last(k) =>
                     LET n == SegChamber(segs[k])
                         alone == ApplySegment(chambers, segs[k])
                     IN  /\ chambers'[n].targetTemp = alone[n].targetTemp
                         /\ chambers'[n].targetTime = alone[n].targetTime
             /\ \A n \in Chambers :
                   (\A k \in 1 .. Len(segs) :
                       ValidSegment(segs[k]) => SegChamber(segs[k]) # n)
                   => chambers'[n] = chambers[n]]_vars

\* C13 (as claimed): a payload is acknowledged exactly when it begins with SET:,
\* with one ACK whatever its segments; any other payload produces nothing and
\* changes no chamber and no controller state.
C13_AckIffSetPrefix ==
    [][WriteStep =>
         IF IsSet(received')
         THEN events' = <<EvAck>>
         ELSE /\ events' = <<>>
              /\ UNCHANGED <<chambers, currentState, settingMode,
                             selectedChamber>>]_vars

\* C13 (amended): a payload is acknowledged exactly when it begins with SET:
\* once the blanks before and after it are removed, with one ACK whatever its
\* segments; any other payload produces nothing and changes no chamber and no
\* controller state.
C13_AckIffTrimmedSetPrefix ==
    [][WriteStep =>
         IF IsSet(trim(received'))
         THEN events' = <<EvAck>>
         ELSE /\ events' = <<>>
              /\ UNCHANGED <<chambers, currentState, settingMode,
                             selectedChamber>>]_vars

\* SET: with no segment has just been acknowledged during a run, every target
\* still as before
C13_Witness ==
    /\ received = CmdNoSegment
    /\ events = <<EvAck>>
    /\ currentState = "STATE_RUNNING"
    /\ chambers[0].targetTemp = 65 /\ chambers[0].timerStarted

\* C14 (as claimed): a SET of one valid segment C<n>:<temp>:<time> stores
\* exactly temp and time as the targets of chamber n, and changes no other
\* chamber, no other field of chamber n, and neither the operating state nor
\* the selected chamber.
C14_StoredVerbatim ==
    [][(/\ WriteStep /\ IsSet(received')
        /\ Len(Segments(received')) = 1
        /\ ValidSegment(Segments(received')[1])) =>
         LET seg == Segments(received')[1]
             n == SegChamber(seg)
         IN  /\ chambers'[n] = [chambers[n] EXCEPT !.targetTemp = SegTemp(seg),
                                                   !.targetTime = SegTime(seg)]
             /\ \A i \in Chambers \ {n} : chambers'[i] = chambers[i]
             /\ UNCHANGED <<currentState, settingMode, selectedChamber>>]_vars

\* C15 (as claimed): the targets of a chamber change only in a step of the
\* loop (one that moves the loop on to its next button or stage); the write
\* callback only holds the payload and changes no chamber.
C15_TargetsChangeInLoop ==
    [][(\E i \in Chambers :
           \/ chambers'[i].targetTemp # chambers[i].targetTemp
           \/ chambers'[i].targetTime # chambers[i].targetTime)
       => (pc' # pc \/ btn' # btn)]_vars

\* C16: a step transmits nothing while no connection is established, and what
\* a step transmits is what that same step produced: nothing is queued, so a
\* reconnect delivers none of the payloads produced while disconnected.
C16_DroppedWhenDisconnected ==
    [][/\ ~deviceConnected => sent' = <<>>
       /\ \A k \in 1 .. Len(sent') : Emitted(sent'[k])]_vars

\* A run has just been started with no connection: its EVENT:STARTED was
\* handed to sendBLEData and not transmitted
C16_Witness ==
    /\ ~deviceConnected
    /\ btn = 5
    /\ events = <<EvStarted>>
    /\ sent = <<>>

\* C17 (as claimed): the loop is not held up while a conversion is pending, so
\* no time goes by inside the step that reads the sensors: every chamber's
\* timer interval is as old after the step as before (or restarted).
C17_ReadDoesNotStall ==
    [][ReadStep => \A i \in Chambers :
                      chambers'[i].sinceTimer <= chambers[i].sinceTimer]_vars

\* C18 (as claimed): a chamber whose timer has started in a run reaches
\* remainingTime = 0 unless the run is stopped, whatever remote commands arrive
\* meanwhile, as long as the loop keeps running and time advances.
C18_RunCompletes ==
    \A i \in Chambers :
        (currentState = "STATE_RUNNING" /\ chambers[i].timerStarted)
        ~> (chambers[i].remainingTime = 0 \/ currentState # "STATE_RUNNING")

\* C19 (as claimed): for every active chamber, atTemperature is true exactly
\* when the stored reading is within 0.5 degrees of the target.
C19_AtTemperatureIffInBand ==
    \A i \in Chambers :
        chambers[i].isActive
        => (chambers[i].atTemperature
            <=> Abs(chambers[i].currentTemp - (16 * chambers[i].targetTemp))
                  <= TEMP_TOLERANCE)

\* C20: currentState changes only in a step that handles button 0 or button 4;
\* readings, timer steps and completions, STATUS lines, connection changes and
\* remote commands leave it as it is.
C20_StateByButtonsOnly ==
    [][currentState' # currentState => (PressStep(0) \/ PressStep(4))]_vars

\* Still Running, connected, after the only timed chamber completed and a
\* further timer step found it due again
C20_Witness ==
    /\ currentState = "STATE_RUNNING"
    /\ deviceConnected
    /\ pc = "buttons"
    /\ \E i \in Chambers :
          /\ completed[i] = 1
          /\ chambers[i].remainingTime = 0
          /\ chambers[i].sinceTimer >= TIMER_UPDATE_INTERVAL

\* One run watched second by second: the user presses ToggleRun, the sensors
\* read inside or outside the band, the application sends CmdCook
NextReach ==
    \/ Press(4) /\ Track(0)
    \/ \E w \in SensorSamples : ReadTemps(w) /\ Track(CONVERSION_DELAY)
    \/ SkipTemps /\ Track(0)
    \/ \E d \in PassDelays : Timers(d) /\ Track(d)
    \/ OnWrite(CmdCook) /\ Track(0)

SpecReach == Init /\ [][NextReach]_vars

\* C21: buttons 1, 2 and 3 act only in Setting.  There button 1 flips
\* settingMode and changes no chamber, and buttons 2 and 3 change nothing but
\* the selected chamber's targetTemp (mode Temperature) or targetTime (mode
\* Time); in Idle and Running they change no mode and no chamber.  In every
\* state they leave selectedChamber and currentState alone and restart the
\* time since the last button.
C21_SettingButtons ==
    [][\A b \in {1, 2, 3} :
          PressStep(b) =>
            /\ sinceButton' = 0
            /\ UNCHANGED <<currentState, selectedChamber>>
            /\ IF currentState # "STATE_SETTING"
               THEN UNCHANGED <<settingMode, chambers>>
               ELSE IF b = 1
               THEN /\ settingMode' # settingMode
                    /\ settingMode' \in {"MODE_TEMPERATURE", "MODE_TIME"}
                    /\ UNCHANGED chambers
               ELSE /\ UNCHANGED settingMode
                    /\ chambers' =
                         IF settingMode = "MODE_TEMPERATURE"
                         THEN [chambers EXCEPT ![selectedChamber].targetTemp =
                                   chambers'[selectedChamber].targetTemp]
                         ELSE [chambers EXCEPT ![selectedChamber].targetTime =
                                   chambers'[selectedChamber].targetTime]]_vars

\* IncrementValue has just been pressed in Setting, mode Time, and the selected
\* chamber's time went from 0 to 1 with its temperature still 0
C21_Witness ==
    /\ btn = 4
    /\ adjusts = 1
    /\ currentState = "STATE_SETTING"
    /\ settingMode = "MODE_TIME"
    /\ chambers[selectedChamber].targetTime = 1
    /\ chambers[selectedChamber].targetTemp = 0

\* C22: TEMP_REACHED for a chamber is emitted exactly in the reading step that
\* finds the chamber at temperature with its timer not yet started, once in that
\* step; the step starts the timer and restarts its minute.  A chamber at
\* temperature has its timer started and a started timer stays started until
\* ToggleRun stops the run, so the event comes at most once per run and a later
\* re-entry into the band emits nothing.  A timer step decrements remainingTime
\* no sooner than TIMER_UPDATE_INTERVAL after the timer start.
C22_TempReachedOnce ==
    [][\A i \in Chambers :
          /\ Emitted(EvTempReached(i))
             <=> (ReadStep /\ ~chambers[i].timerStarted
                           /\ chambers'[i].atTemperature)
          /\ Cardinality({k \in 1 .. Len(events') :
                            events'[k] = EvTempReached(i)}) <= 1
          /\ Emitted(EvTempReached(i))
             => /\ ~chambers[i].atTemperature
                /\ chambers'[i].timerStarted
                /\ chambers'[i].sinceTimer = 0
          /\ chambers'[i].atTemperature => chambers'[i].timerStarted
          /\ (chambers[i].timerStarted /\ ~chambers'[i].timerStarted)
             => (PressStep(4) /\ currentState = "STATE_RUNNING")
          /\ (TimerStep /\ chambers[i].timerStarted
                /\ chambers'[i].remainingTime < chambers[i].remainingTime)
             => sinceStart[i] >= TIMER_UPDATE_INTERVAL]_vars

\* A reading step has found a chamber inside the band whose timer started more
\* than a minute ago and has counted down since: nothing is emitted
C22_Witness ==
    \E i \in Chambers :
        /\ pc = "timers"
        /\ sinceTempRead = 0
        /\ events = <<>>
        /\ chambers[i].atTemperature
        /\ chambers[i].timerStarted
        /\ sinceStart[i] > TIMER_UPDATE_INTERVAL
        /\ chambers[i].remainingTime < startRemaining[i]

\* C23: isActive, atTemperature and timerStarted are true only in Running, and
\* a chamber at temperature or with its timer started is active.
C23_FlagsOnlyWhileRunning ==
    \A i \in Chambers :
        /\ (chambers[i].isActive \/ chambers[i].atTemperature
              \/ chambers[i].timerStarted)
           => currentState = "STATE_RUNNING"
        /\ (chambers[i].atTemperature \/ chambers[i].timerStarted)
           => chambers[i].isActive

\* In Setting after a run in which a chamber completed: every flag is false
C23_Witness ==
    /\ currentState = "STATE_SETTING"
    /\ \E i \in Chambers : completed[i] = 1
    /\ \A i \in Chambers :
          /\ ~chambers[i].isActive
          /\ ~chambers[i].atTemperature
          /\ ~chambers[i].timerStarted

=============================================================================
